---- MODULE Spec2Model ----
(***************************************************************************)
(* Model of create-service-accounts/gen_sa_accounts.py: the OAuth token    *)
(* cache, account provisioning (_create_remaining_accounts) and key        *)
(* provisioning (_create_sa_keys) against a remote IAM service.            *)
(*                                                                         *)
(* Accounts of the project are the integers 1..accounts, in creation       *)
(* order.  A remote key is a record [sa, kid, keyType].  Strings that the  *)
(* code splits are sequences of their parts.                               *)
(***************************************************************************)
EXTENDS Integers, Sequences, FiniteSets, TLC

\* ------------------------------------------------------------------ bounds
MaxAccounts == 2      \* initial project size of the small (key-focused) runs
MaxFaults   == 1      \* remote calls that may fail in one behaviour
MaxRuns     == 2      \* invocations of the program in one behaviour
MaxRemote   == 115    \* cap on the number of accounts of the project
MaxLoopFaults == 2    \* failing calls of a run of the provisioning loop alone
MaxStep     == 2      \* largest stride of a random source

\* ------------------------------------------------------- program constants
QUOTA       == 100    \* while sa_count < 100
PAGE_SIZE   == 100    \* pageSize=100
CHUNK_SIZE  == 10     \* CHUNK_SIZE = 10 (both provisioners)
BODY_LEN    == 25     \* range(25)

Min(a, b) == IF a < b THEN a ELSE b

VARIABLES
    \* local files
    credFile,           \* the client-secrets file exists
    tokenFile,          \* token cache: "absent" or the pickled credential
    files,              \* output directory: local-part -> payload written
    \* command line
    create_sas, download_keys,
    \* the process
    pc, exitCode, creds,
    sa_count,
    all_sas, idx, keys_to_create_map, sa_names, i, key_dump, wpos,
    \* the remote service
    accounts,           \* number of service accounts of the project
    keys,               \* set of key records
    svcSysKeys,         \* the service gives a new account a system-managed key
    \* the environment's budget
    faults,             \* failures left for token, account-list and account-create calls
    keyFaults,          \* failures left for key-list and key-create calls
    kills,              \* times the process may still be killed
    maxRun, run,        \* invocations allowed, and the current one
    \* the random module
    rnd,                \* the source the draws of choice() come from
    drawn,              \* draws made so far by this process
    aids,               \* the accountIds of the latest batch, in order
    \* a second invocation of --create-sas on the same project
    rival,              \* [pc, sa_count, listOk] of its _create_remaining_accounts
    \* history (read by the properties only)
    netCalls,           \* kinds of network call made in this run
    authLog,            \* local file accesses of the credential provider in this run
    n0,                 \* accounts when this run started
    batchLog,           \* account batches submitted: [run, size, seen, held, listOk]
    endLog,             \* how earlier runs ended: [run, how]
    faultLog,           \* failed calls: [run, kind, sa]
    createLog,          \* key-create calls issued: [run, sa, ok]
    writeLog,           \* files written: [run, file, data]
    listLog,            \* key-list calls: [run, sa, user]
    lastList            \* what the latest account listing was given

vars == << credFile, tokenFile, files, create_sas, download_keys, pc, exitCode,
           creds, sa_count, all_sas, idx, keys_to_create_map, sa_names, i,
           key_dump, wpos, accounts, keys, svcSysKeys, faults, keyFaults, kills,
           maxRun, run, rnd, drawn, aids,
           rival, netCalls, authLog, n0, batchLog, endLog, faultLog, createLog, writeLog, listLog,
           lastList >>

\* --------------------------------------------------------- resource names
\* A string is the sequence of its parts; a part is literal text or the
\* accountId of an account.
Lit(text) == << text, 0 >>
Id(a)     == << "accountId", a >>

\* sa['name'] = projects/{project}/serviceAccounts/{email}
Name(a)  == << Lit("projects/project/serviceAccounts/"), Id(a) >>
\* sa['email'] = {accountId}@{project}.iam.gserviceaccount.com
Email(a) == << Id(a), Lit("@"), Lit("project.iam.gserviceaccount.com") >>
\* the name of a key: {sa name}/keys/{key id}
KeyName(a, kid) == Name(a) \o << Lit("/keys/"), << "keyId", kid >> >>

\* str.split(sep)[0]
RECURSIVE SplitAt(_, _)
SplitAt(s, sep) ==
    IF s = << >> \/ Head(s) = Lit(sep) THEN << >>
    ELSE << Head(s) >> \o SplitAt(Tail(s), sep)

\* key_info['email'].split('@')[0] + ".json"
FileName(email) == SplitAt(email, "@") \o << Lit(".json") >>
\* the file of account a, as the spec names it: {local-part}.json
FileOf(a) == << Id(a), Lit(".json") >>

\* privateKeyData as the service sends it, and b64decode(...).decode('utf-8')
B64(payload)   == << "b64", payload >>
b64decode(enc) == enc[2]
Payload(a, kid) == << "key", a, kid >>

\* ---------------------------------------------------------- the remote
KeysOf(a)     == { k \in keys : k.sa = a }
UserKeysOf(a) == { k \in KeysOf(a) : k.keyType = "USER_MANAGED" }
SysKey(a)     == [sa |-> a, kid |-> 0, keyType |-> "SYSTEM_MANAGED"]

\* The first page of serviceAccounts.list: at most pageSize accounts.  Which
\* accounts a truncated page holds is the service's choice.
Pages(n) == { [k \in 1..Min(n, PAGE_SIZE) |-> off + k] : off \in {0, n - Min(n, PAGE_SIZE)} }

\* mutant: a failed listing is retried until it answers
list_sas_retry(ok, page) == page

\* _list_sas: the page, or [] when the call raises HttpError
list_sas(ok, page) == IF ok THEN page ELSE << >>

Fail(kind, a) == [run |-> run, kind |-> kind, sa |-> a]

\* outcomes of one remote call: it may fail while the budget lasts
Outcomes(budget) == IF budget > 0 THEN {TRUE, FALSE} ELSE {TRUE}
Cost(ok) == IF ok THEN 0 ELSE 1

\* ------------------------------------------------------------------ Init
\* ------------------------------------------------------------ _generate_id
\* line 25
chars == << "-", "a", "b", "c", "d", "e", "f", "g", "h", "i", "j", "k", "l", "m",
           "n", "o", "p", "q", "r", "s", "t", "u", "v", "w", "x", "y", "z",
           "1", "2", "3", "4", "5", "6", "7", "8", "9", "0" >>
\* line 47: the prefix account provisioning passes
Prefix == << "m", "f", "c", "-" >>

\* The outcomes of choice() are the draws of a random source.  A source is a
\* first draw and a stride: its k-th draw from a sequence of n items is item
\* (seed + (k - 1) * step) mod n, counted from 0.
RandomSources == [seed : 0..(Len(chars) - 1), step : 0..MaxStep]
OneSource == [seed |-> 0, step |-> 1]
choice(seq, r, k) == seq[((r.seed + (k - 1) * r.step) % Len(seq)) + 1]

\* mutant: the last character is drawn like the others
generate_id_any_last(prefix, r, d) ==
    prefix \o [k \in 1..BODY_LEN |-> choice(chars, r, d + k)]
           \o << choice(chars, r, d + BODY_LEN + 1) >>

\* line 26, after d earlier draws: prefix, 25 draws from chars, one from chars[1:]
generate_id(prefix, r, d) ==
    prefix \o [k \in 1..BODY_LEN |-> choice(chars, r, d + k)]
           \o << choice(Tail(chars), r, d + BODY_LEN + 1) >>

\* lines 46-47: the accountIds of a batch of count create calls
batch_ids(count, r, d) ==
    [n \in 1..count |-> generate_id(Prefix, r, d + (n - 1) * (BODY_LEN + 1))]

TokenStates == {"absent", "valid", "expired_refresh", "expired"}

InitLocals ==
    /\ pc = "main" /\ exitCode = "running" /\ creds = "none"
    /\ sa_count = 0 /\ all_sas = << >> /\ idx = 0
    /\ keys_to_create_map = << >> /\ sa_names = << >> /\ i = 0
    /\ key_dump = << >> /\ wpos = 0
    /\ netCalls = {} /\ authLog = {} /\ batchLog = << >> /\ endLog = {} /\ run = 1
    /\ faultLog = {} /\ createLog = << >> /\ writeLog = << >> /\ listLog = << >>
    /\ lastList = "none"
    /\ n0 = accounts
    /\ rival = [pc |-> "off", sa_count |-> 0, listOk |-> TRUE]
    /\ drawn = 0 /\ aids = << >>

\* runs that exercise the credential provider and the orchestrator
InitAuth ==
    /\ credFile \in BOOLEAN
    /\ tokenFile \in TokenStates
    /\ create_sas \in BOOLEAN /\ download_keys \in BOOLEAN
    /\ accounts \in {0, 93, QUOTA}
    /\ svcSysKeys \in BOOLEAN
    /\ keys = IF svcSysKeys THEN { SysKey(a) : a \in 1..accounts } ELSE {}
    /\ files = << >>
    /\ faults = 1 /\ keyFaults = 0 /\ kills = 0 /\ maxRun = 1

\* account provisioning from every project size
InitAccounts ==
    /\ credFile = TRUE /\ tokenFile = "valid"
    /\ create_sas = TRUE /\ download_keys = FALSE
    /\ accounts \in 0..QUOTA
    /\ svcSysKeys = TRUE
    /\ keys = {}
    /\ files = << >>
    /\ faults = MaxFaults /\ keyFaults = 0 /\ kills = 0 /\ maxRun = 1

\* key provisioning on small projects with every mix of keys, with faults
\* and with the process killed
KeyTypes == {"SYSTEM_MANAGED", "USER_MANAGED"}
KeyMixes == SUBSET KeyTypes
InitKeys ==
    /\ credFile = TRUE /\ tokenFile = "valid"
    /\ create_sas = FALSE /\ download_keys = TRUE
    /\ accounts \in 0..MaxAccounts
    /\ svcSysKeys = TRUE
    /\ \E mix \in [1..accounts -> KeyMixes] :
         keys = { k \in [sa : 1..accounts, kid : 0..1, keyType : KeyTypes] :
                    /\ k.keyType \in mix[k.sa]
                    /\ k.kid = IF k.keyType = "USER_MANAGED" THEN 1 ELSE 0 }
    /\ \E prior \in BOOLEAN :
         files = IF prior
                   THEN [f \in { FileOf(b) : b \in { c \in 1..accounts :
                                                       UserKeysOf(c) # {} } } |->
                           Payload(f[1][2], 1)]
                   ELSE << >>
    /\ faults = 1 /\ keyFaults = MaxFaults
    /\ kills = 1 /\ maxRun = MaxRuns

\* key provisioning over more than one chunk: CHUNK_SIZE + 2 accounts, all
\* keyless but possibly the first; either one call fails or the process is
\* killed once
InitChunks ==
    /\ credFile = TRUE /\ tokenFile = "valid"
    /\ create_sas = FALSE /\ download_keys = TRUE
    /\ accounts = CHUNK_SIZE + 2
    /\ svcSysKeys = TRUE
    /\ \E mix \in KeyMixes :
         keys = { k \in [sa : {1}, kid : 0..1, keyType : KeyTypes] :
                    /\ k.keyType \in mix
                    /\ k.kid = IF k.keyType = "USER_MANAGED" THEN 1 ELSE 0 }
    /\ files = << >>
    /\ faults = 0
    /\ \E budget \in { << 1, 0 >>, << 0, 1 >> } :
         keyFaults = budget[1] /\ kills = budget[2]
    /\ maxRun = MaxRuns

\* key provisioning on a project that holds more accounts than one page
InitOver ==
    /\ credFile = TRUE /\ tokenFile = "valid"
    /\ create_sas = FALSE /\ download_keys = TRUE
    /\ accounts = PAGE_SIZE + 1
    /\ svcSysKeys = TRUE
    /\ keys = {}
    /\ files = << >>
    /\ faults = 0 /\ keyFaults = 0 /\ kills = 0
    /\ maxRun = MaxRuns

Init ==
    /\ (InitAuth \/ InitAccounts \/ InitKeys \/ InitChunks \/ InitOver)
    /\ InitLocals
    /\ rnd = OneSource

\* ------------------------------------------------- __main__ and the token
\* lines 178-180: neither flag given
Main ==
    /\ pc = "main"
    /\ IF ~(create_sas \/ download_keys)
         THEN pc' = "exit" /\ exitCode' = 1
         ELSE pc' = "load_token" /\ UNCHANGED exitCode
    /\ UNCHANGED << credFile, tokenFile, files, create_sas, download_keys,
                    creds, sa_count, all_sas, idx, keys_to_create_map, sa_names,
                    i, key_dump, wpos, accounts, keys, svcSysKeys, faults,
                    keyFaults, kills, maxRun, run, rnd, drawn, aids, rival,
                    netCalls, authLog, n0, batchLog, endLog, faultLog,
                    createLog, writeLog, listLog, lastList >>

\* lines 142-145
LoadToken ==
    /\ pc = "load_token"
    /\ creds' = IF tokenFile # "absent" THEN tokenFile ELSE "none"
    /\ authLog' = IF tokenFile # "absent"
                    THEN authLog \cup {[ev |-> "load_token", tok |-> tokenFile]}
                    ELSE authLog
    /\ pc' = "auth"
    /\ UNCHANGED << credFile, tokenFile, files, create_sas, download_keys,
                    exitCode, sa_count, all_sas, idx, keys_to_create_map,
                    sa_names, i, key_dump, wpos, accounts, keys, svcSysKeys,
                    faults, keyFaults, kills, maxRun, run, rnd, drawn, aids,
                    rival, netCalls, n0, batchLog, endLog, faultLog, createLog,
                    writeLog, listLog, lastList >>

\* mutant: the token is renewed on every invocation
must_authorize_always(c) == TRUE

\* line 147: not creds or not creds.valid
must_authorize(c) == c = "none" \/ c # "valid"

\* line 147: the cached token is valid
UseCached ==
    /\ pc = "auth" /\ ~must_authorize(creds)
    /\ pc' = "build"
    /\ UNCHANGED << credFile, tokenFile, files, create_sas, download_keys,
                    exitCode, creds, sa_count, all_sas, idx, keys_to_create_map,
                    sa_names, i, key_dump, wpos, accounts, keys, svcSysKeys,
                    faults, keyFaults, kills, maxRun, run, rnd, drawn, aids,
                    rival, netCalls, authLog, n0, batchLog, endLog, faultLog,
                    createLog, writeLog, listLog, lastList >>

\* lines 148-149: creds.refresh(Request()); a failure is not caught
Refresh ==
    /\ pc = "auth" /\ must_authorize(creds) /\ creds = "expired_refresh"
    /\ netCalls' = netCalls \cup {"refresh"}
    /\ \E ok \in Outcomes(faults) :
         /\ faults' = faults - Cost(ok)
         /\ IF ok THEN /\ creds' = "valid" /\ pc' = "persist"
                       /\ UNCHANGED << exitCode, faultLog >>
                 ELSE /\ pc' = "exit" /\ exitCode' = 1
                      /\ faultLog' = faultLog \cup {Fail("refresh", 0)}
                      /\ UNCHANGED creds
    /\ UNCHANGED << credFile, tokenFile, files, create_sas, download_keys,
                    sa_count, all_sas, idx, keys_to_create_map, sa_names, i,
                    key_dump, wpos, accounts, keys, svcSysKeys, keyFaults,
                    kills, maxRun, run, rnd, drawn, aids, rival, authLog, n0,
                    batchLog, endLog, createLog, writeLog, listLog, lastList >>

\* lines 150-157: the interactive flow; from_client_secrets_file raises when
\* the file is absent, before anything is sent
Flow ==
    /\ pc = "auth" /\ must_authorize(creds) /\ creds # "expired_refresh"
    /\ IF ~credFile
         THEN /\ pc' = "exit" /\ exitCode' = 1
              /\ UNCHANGED << creds, netCalls, authLog, faults, faultLog >>
         ELSE /\ authLog' = authLog \cup {[ev |-> "read_credentials", tok |-> "none"]}
              /\ netCalls' = netCalls \cup {"fetch_token"}
              /\ \E ok \in Outcomes(faults) :
                   /\ faults' = faults - Cost(ok)
                   /\ IF ok THEN /\ creds' = "valid" /\ pc' = "persist"
                                 /\ UNCHANGED << exitCode, faultLog >>
                           ELSE /\ pc' = "exit" /\ exitCode' = 1
                                /\ faultLog' = faultLog \cup {Fail("fetch_token", 0)}
                                /\ UNCHANGED creds
    /\ UNCHANGED << credFile, tokenFile, files, create_sas, download_keys,
                    sa_count, all_sas, idx, keys_to_create_map, sa_names, i,
                    key_dump, wpos, accounts, keys, svcSysKeys, keyFaults,
                    kills, maxRun, run, rnd, drawn, aids, rival, n0, batchLog,
                    endLog, createLog, writeLog, listLog, lastList >>

\* mutant: the token is kept in memory only
PersistNothing ==
    /\ pc = "persist"
    /\ pc' = "build"
    /\ UNCHANGED << credFile, tokenFile, files, create_sas, download_keys,
                    exitCode, creds, sa_count, all_sas, idx, keys_to_create_map,
                    sa_names, i, key_dump, wpos, accounts, keys, svcSysKeys,
                    faults, keyFaults, kills, maxRun, run, rnd, drawn, aids,
                    rival, netCalls, authLog, n0, batchLog, endLog, faultLog,
                    createLog, writeLog, listLog, lastList >>

\* lines 158-159
Persist ==
    /\ pc = "persist"
    /\ tokenFile' = creds
    /\ authLog' = authLog \cup {[ev |-> "write_token", tok |-> creds]}
    /\ pc' = "build"
    /\ UNCHANGED << credFile, files, create_sas, download_keys, exitCode, creds,
                    sa_count, all_sas, idx, keys_to_create_map, sa_names, i,
                    key_dump, wpos, accounts, keys, svcSysKeys, faults,
                    keyFaults, kills, maxRun, run, rnd, drawn, aids, rival,
                    netCalls, n0, batchLog, endLog, faultLog, createLog,
                    writeLog, listLog, lastList >>

\* mutant: the key download runs before the provisioning
AfterBuildKeysFirst(cs, dk) == IF dk THEN "k_start" ELSE IF cs THEN "a_list" ELSE "exit"

\* lines 163-167: provisioning first, then key download
AfterBuild(cs, dk) == IF cs THEN "a_list" ELSE IF dk THEN "k_start" ELSE "exit"
AfterAccounts(dk) == IF dk THEN "k_start" ELSE "exit"

\* line 161
Build ==
    /\ pc = "build"
    /\ pc' = AfterBuild(create_sas, download_keys)
    /\ exitCode' = IF pc' = "exit" THEN 0 ELSE exitCode
    /\ UNCHANGED << credFile, tokenFile, files, create_sas, download_keys,
                    creds, sa_count, all_sas, idx, keys_to_create_map, sa_names,
                    i, key_dump, wpos, accounts, keys, svcSysKeys, faults,
                    keyFaults, kills, maxRun, run, rnd, drawn, aids, rival,
                    netCalls, authLog, n0, batchLog, endLog, faultLog,
                    createLog, writeLog, listLog, lastList >>

\* ------------------------------------------- _create_remaining_accounts
\* mutant: the last batch is not cut to what is missing
to_create_full(count) == CHUNK_SIZE

\* mutant: the batch is cut one call too late
to_create_over(count) == Min(CHUNK_SIZE, QUOTA - count + 1)

\* mutant: everything that is missing goes into one batch
to_create_uncut(count) == QUOTA - count

\* line 61
to_create(count) == Min(CHUNK_SIZE, QUOTA - count)

\* mutant: the loop gives up after as many batches as an empty project needs
keep_going_capped(count) == count < QUOTA /\ Len(batchLog) < QUOTA \div CHUNK_SIZE

\* line 60: while sa_count < 100
keep_going(count) == count < QUOTA

\* lines 56 and 66: sa_count = len(_list_sas(iam, project))
AcctList ==
    /\ pc = "a_list"
    /\ netCalls' = netCalls \cup {"list"}
    /\ \E ok \in Outcomes(faults), page \in Pages(accounts) :
         /\ faults' = faults - Cost(ok)
         /\ sa_count' = Len(list_sas(ok, page))
         /\ lastList' = IF ok THEN "ok" ELSE "failed"
         /\ faultLog' = IF ok THEN faultLog ELSE faultLog \cup {Fail("list", 0)}
    /\ pc' = "a_while"
    /\ UNCHANGED << credFile, tokenFile, files, create_sas, download_keys,
                    exitCode, creds, all_sas, idx, keys_to_create_map, sa_names,
                    i, key_dump, wpos, accounts, keys, svcSysKeys, keyFaults,
                    kills, maxRun, run, rnd, drawn, aids, rival, authLog, n0,
                    batchLog, endLog, createLog, writeLog, listLog >>

\* lines 60-65: one batch of to_create create calls; each call may fail
\* (_def_batch_resp absorbs the failure)
AcctBatch ==
    /\ pc = "a_while" /\ keep_going(sa_count)
    /\ netCalls' = netCalls \cup {"create"}
    /\ \E failed \in 0..Min(faults, to_create(sa_count)) :
         /\ accounts + to_create(sa_count) - failed <= MaxRemote
         /\ faults' = faults - failed
         /\ accounts' = accounts + to_create(sa_count) - failed
         /\ faultLog' = IF failed = 0 THEN faultLog
                        ELSE faultLog \cup {Fail("create", 0)}
    /\ keys' = IF svcSysKeys
                 THEN keys \cup { SysKey(a) : a \in (accounts + 1)..accounts' }
                 ELSE keys
    /\ aids' = batch_ids(to_create(sa_count), rnd, drawn)
    /\ drawn' = drawn + to_create(sa_count) * (BODY_LEN + 1)
    /\ batchLog' = Append(batchLog,
                      [run |-> run, size |-> to_create(sa_count), seen |-> sa_count,
                       held |-> accounts, listOk |-> lastList = "ok"])
    /\ pc' = "a_list"
    /\ UNCHANGED << credFile, tokenFile, files, create_sas, download_keys,
                    exitCode, creds, sa_count, all_sas, idx, keys_to_create_map,
                    sa_names, i, key_dump, wpos, svcSysKeys, keyFaults, kills,
                    maxRun, run, rnd, rival, authLog, n0, endLog, createLog,
                    writeLog, listLog, lastList >>

\* line 68 and the return to serviceaccountfactory
AcctDone ==
    /\ pc = "a_while" /\ ~keep_going(sa_count)
    /\ pc' = AfterAccounts(download_keys)
    /\ exitCode' = IF pc' = "exit" THEN 0 ELSE exitCode
    /\ UNCHANGED << credFile, tokenFile, files, create_sas, download_keys,
                    creds, sa_count, all_sas, idx, keys_to_create_map, sa_names,
                    i, key_dump, wpos, accounts, keys, svcSysKeys, faults,
                    keyFaults, kills, maxRun, run, rnd, drawn, aids, rival,
                    netCalls, authLog, n0, batchLog, endLog, faultLog,
                    createLog, writeLog, listLog, lastList >>

\* ------------------------------------------------------- _create_sa_keys
Range(s) == { s[j] : j \in DOMAIN s }

\* keys_to_create_map[k] = v on a dict that keeps insertion order
MapPut(m, k, v) ==
    IF \E j \in DOMAIN m : m[j][1] = k
      THEN [j \in DOMAIN m |-> IF m[j][1] = k THEN << k, v >> ELSE m[j]]
      ELSE Append(m, << k, v >>)
\* keys_to_create_map[k]
MapGet(m, k) == (CHOOSE p \in Range(m) : p[1] = k)[2]
\* list(keys_to_create_map.keys())
MapKeys(m) == [j \in DOMAIN m |-> m[j][1]]

\* mutant: the listing asks for the wrong key type
keys_list_system(a) == { k \in KeysOf(a) : k.keyType = "SYSTEM_MANAGED" }

\* line 89: keys().list(name=sa['name']) names no keyTypes, so the service
\* returns the account's keys of every type
keys_list(a) == KeysOf(a)

\* mutants: the test is dropped; the test is the service's limit of keys
NeedsKeyAlways(ks)     == TRUE
NeedsKeyUnderLimit(ks) == Cardinality(ks) < 10

\* line 90: if not keys
NeedsKey(ks) == ks = {}

\* mutant: the slice has no upper end
ChunkToEnd(names, from) == SubSeq(names, from + 1, Len(names))

\* line 107: sa_names[i:i + CHUNK_SIZE]
Chunk(names, from) == SubSeq(names, from + 1, Min(from + CHUNK_SIZE, Len(names)))

\* the account a resource name denotes
AccountOf(name) == name[2][2]

\* the service's answer to keys().create(name=...): a new user-managed key
NewKid(a)    == Cardinality(UserKeysOf(a)) + 1
NewKey(a)    == [sa |-> a, kid |-> NewKid(a), keyType |-> "USER_MANAGED"]
CreateResp(a) == [name |-> KeyName(a, NewKid(a)),
                  privateKeyData |-> B64(Payload(a, NewKid(a)))]

\* mutant: each response replaces what the batch has collected
key_creation_callback_last(dump, resp, exception) ==
    IF exception THEN dump
    ELSE << [email    |-> MapGet(keys_to_create_map, SplitAt(resp.name, "/keys/")),
             key_data |-> b64decode(resp.privateKeyData)] >>

\* mutant: a failed request discards what the batch has collected
key_creation_callback_reset(dump, resp, exception) ==
    IF exception THEN << >>
    ELSE Append(dump,
           [email    |-> MapGet(keys_to_create_map, SplitAt(resp.name, "/keys/")),
            key_data |-> b64decode(resp.privateKeyData)])

\* lines 111-118: key_creation_callback, as a function of key_dump
key_creation_callback(dump, resp, exception) ==
    IF exception THEN dump
    ELSE Append(dump,
           [email    |-> MapGet(keys_to_create_map, SplitAt(resp.name, "/keys/")),
            key_data |-> b64decode(resp.privateKeyData)])

\* line 126: batch.execute() calls the callback once per request, in order
RECURSIVE RunCallbacks(_, _, _, _)
RunCallbacks(chunk, failed, j, dump) ==
    IF j > Len(chunk) THEN dump
    ELSE RunCallbacks(chunk, failed, j + 1,
           key_creation_callback(dump, CreateResp(AccountOf(chunk[j])), j \in failed))

\* which requests of a batch fail: any set the budget allows
FailSets(n) == { F \in SUBSET (1..n) : Cardinality(F) <= keyFaults }

\* lines 75-83
KeysStart ==
    /\ pc = "k_start"
    /\ netCalls' = netCalls \cup {"list"}
    /\ \E ok \in Outcomes(faults), page \in Pages(accounts) :
         /\ faults' = faults - Cost(ok)
         /\ all_sas' = list_sas(ok, page)
         /\ lastList' = IF ok THEN "ok" ELSE "failed"
         /\ faultLog' = IF ok THEN faultLog ELSE faultLog \cup {Fail("list_for_keys", 0)}
    /\ IF all_sas' = << >>
         THEN pc' = "exit" /\ exitCode' = 0 /\ idx' = idx
         ELSE pc' = "k_check" /\ idx' = 1 /\ UNCHANGED exitCode
    /\ keys_to_create_map' = << >>
    /\ UNCHANGED << credFile, tokenFile, files, create_sas, download_keys,
                    creds, sa_count, sa_names, i, key_dump, wpos, accounts,
                    keys, svcSysKeys, keyFaults, kills, maxRun, run, rnd, drawn,
                    aids, rival, authLog, n0, batchLog, endLog, createLog,
                    writeLog, listLog >>

\* lines 86-93: one iteration of the loop over all_sas
KeysCheck ==
    /\ pc = "k_check" /\ idx <= Len(all_sas)
    /\ netCalls' = netCalls \cup {"keys_list"}
    /\ LET a == all_sas[idx] IN
       \E ok \in Outcomes(keyFaults) :
         /\ keyFaults' = keyFaults - Cost(ok)
         /\ keys_to_create_map' =
              IF ok /\ NeedsKey(keys_list(a))
                THEN MapPut(keys_to_create_map, Name(a), Email(a))
                ELSE keys_to_create_map
         /\ faultLog' = IF ok THEN faultLog
                        ELSE faultLog \cup {Fail("keys_list", a)}
         /\ listLog' = Append(listLog,
                         [run |-> run, sa |-> a, ok |-> ok,
                          user |-> UserKeysOf(a) # {}, any |-> KeysOf(a) # {}])
    /\ idx' = idx + 1
    /\ UNCHANGED << credFile, tokenFile, files, create_sas, download_keys, pc,
                    exitCode, creds, sa_count, all_sas, sa_names, i, key_dump,
                    wpos, accounts, keys, svcSysKeys, faults, kills, maxRun,
                    run, rnd, drawn, aids, rival, authLog, n0, batchLog, endLog,
                    createLog, writeLog, lastList >>

\* lines 95-104
KeysPlan ==
    /\ pc = "k_check" /\ idx > Len(all_sas)
    /\ IF keys_to_create_map = << >>
         THEN pc' = "exit" /\ exitCode' = 0 /\ UNCHANGED sa_names
         ELSE pc' = "k_batch" /\ sa_names' = MapKeys(keys_to_create_map)
              /\ UNCHANGED exitCode
    /\ i' = 0
    /\ UNCHANGED << credFile, tokenFile, files, create_sas, download_keys,
                    creds, sa_count, all_sas, idx, keys_to_create_map, key_dump,
                    wpos, accounts, keys, svcSysKeys, faults, keyFaults, kills,
                    maxRun, run, rnd, drawn, aids, rival, netCalls, authLog, n0,
                    batchLog, endLog, faultLog, createLog, writeLog, listLog,
                    lastList >>

\* lines 107-126: one batch of key-create calls
KeysBatch ==
    /\ pc = "k_batch"
    /\ netCalls' = netCalls \cup {"keys_create"}
    /\ LET chunk == Chunk(sa_names, i) IN
       \E failed \in FailSets(Len(chunk)) :
         /\ keyFaults' = keyFaults - Cardinality(failed)
         /\ keys' = keys \cup { NewKey(AccountOf(chunk[j])) :
                                  j \in (1..Len(chunk)) \ failed }
         /\ key_dump' = RunCallbacks(chunk, failed, 1, << >>)
         /\ faultLog' = faultLog \cup
                          { Fail("keys_create", AccountOf(chunk[j])) : j \in failed }
         /\ createLog' = createLog \o
                          [j \in 1..Len(chunk) |->
                             [run |-> run, sa |-> AccountOf(chunk[j]),
                              ok |-> j \notin failed]]
    /\ wpos' = 1
    /\ pc' = "k_write"
    /\ UNCHANGED << credFile, tokenFile, files, create_sas, download_keys,
                    exitCode, creds, sa_count, all_sas, idx, keys_to_create_map,
                    sa_names, i, accounts, svcSysKeys, faults, kills, maxRun,
                    run, rnd, drawn, aids, rival, authLog, n0, batchLog, endLog,
                    writeLog, listLog, lastList >>

\* lines 129-132: one key file
KeysWrite ==
    /\ pc = "k_write" /\ wpos <= Len(key_dump)
    /\ LET key_info == key_dump[wpos]
           filename == FileName(key_info.email)
       IN /\ files' = (filename :> key_info.key_data) @@ files
          /\ writeLog' = Append(writeLog,
                           [run |-> run, file |-> filename,
                            data |-> key_info.key_data])
    /\ wpos' = wpos + 1
    /\ UNCHANGED << credFile, tokenFile, create_sas, download_keys, pc,
                    exitCode, creds, sa_count, all_sas, idx, keys_to_create_map,
                    sa_names, i, key_dump, accounts, keys, svcSysKeys, faults,
                    keyFaults, kills, maxRun, run, rnd, drawn, aids, rival,
                    netCalls, authLog, n0, batchLog, endLog, faultLog,
                    createLog, listLog, lastList >>

\* lines 134-137: the end of a chunk, and of the loop
KeysSleep ==
    /\ pc = "k_write" /\ wpos > Len(key_dump)
    /\ i' = i + CHUNK_SIZE
    /\ IF i' < Len(sa_names)
         THEN pc' = "k_batch" /\ UNCHANGED exitCode
         ELSE pc' = "exit" /\ exitCode' = 0
    /\ UNCHANGED << credFile, tokenFile, files, create_sas, download_keys,
                    creds, sa_count, all_sas, idx, keys_to_create_map, sa_names,
                    key_dump, wpos, accounts, keys, svcSysKeys, faults,
                    keyFaults, kills, maxRun, run, rnd, drawn, aids, rival,
                    netCalls, authLog, n0, batchLog, endLog, faultLog,
                    createLog, writeLog, listLog, lastList >>

\* ------------------------------------------------------- the environment
\* the process is killed (operator interrupt, power loss)
Kill ==
    /\ pc \notin {"exit", "killed"} /\ kills > 0
    /\ kills' = kills - 1
    /\ pc' = "killed"
    /\ UNCHANGED << credFile, tokenFile, files, create_sas, download_keys,
                    exitCode, creds, sa_count, all_sas, idx, keys_to_create_map,
                    sa_names, i, key_dump, wpos, accounts, keys, svcSysKeys,
                    faults, keyFaults, maxRun, run, rnd, drawn, aids, rival,
                    netCalls, authLog, n0, batchLog, endLog, faultLog,
                    createLog, writeLog, listLog, lastList >>

\* the operator starts the program again with the same command line
Rerun ==
    /\ pc \in {"exit", "killed"} /\ run < maxRun
    /\ run' = run + 1
    /\ pc' = "main" /\ exitCode' = "running" /\ creds' = "none"
    /\ sa_count' = 0 /\ all_sas' = << >> /\ idx' = 0
    /\ keys_to_create_map' = << >> /\ sa_names' = << >> /\ i' = 0
    /\ key_dump' = << >> /\ wpos' = 0
    /\ drawn' = 0 /\ aids' = << >>
    /\ netCalls' = {} /\ authLog' = {} /\ n0' = accounts /\ lastList' = "none"
    /\ endLog' = endLog \cup {[run |-> run, how |-> pc]}
    /\ UNCHANGED << credFile, tokenFile, files, create_sas, download_keys,
                    accounts, keys, svcSysKeys, faults, keyFaults, kills,
                    maxRun, rnd, rival, batchLog, faultLog, createLog, writeLog,
                    listLog >>

Next ==
    \/ Main \/ LoadToken \/ UseCached \/ Refresh \/ Flow \/ Persist \/ Build
    \/ AcctList \/ AcctBatch \/ AcctDone
    \/ KeysStart \/ KeysCheck \/ KeysPlan \/ KeysBatch \/ KeysWrite \/ KeysSleep
    \/ Kill \/ Rerun

Spec == Init /\ [][Next]_vars

\* ------------------------------------------- two invocations at once
\* The operator starts a second --create-sas on the same project while the
\* first is running.  It finds the cached token valid and runs the same
\* _create_remaining_accounts; nothing in the code makes one wait for the other.
InitTwo ==
    /\ credFile = TRUE /\ tokenFile = "valid"
    /\ create_sas = TRUE /\ download_keys = FALSE
    /\ accounts \in {QUOTA - 2 * CHUNK_SIZE - 1, QUOTA - CHUNK_SIZE - 1, QUOTA - 1}
    /\ svcSysKeys = FALSE
    /\ keys = {}
    /\ files = << >>
    /\ faults = 0 /\ keyFaults = 0 /\ kills = 0 /\ maxRun = 1
    /\ InitLocals
    /\ rnd = OneSource

RivalStart ==
    /\ rival.pc = "off"
    /\ rival' = [pc |-> "a_list", sa_count |-> 0, listOk |-> TRUE]
    /\ UNCHANGED << credFile, tokenFile, files, create_sas, download_keys, pc,
                    exitCode, creds, sa_count, all_sas, idx, keys_to_create_map,
                    sa_names, i, key_dump, wpos, accounts, keys, svcSysKeys,
                    faults, keyFaults, kills, maxRun, run, rnd, drawn, aids,
                    netCalls, authLog, n0, batchLog, endLog, faultLog,
                    createLog, writeLog, listLog, lastList >>

\* lines 56 and 66
RivalList ==
    /\ rival.pc = "a_list"
    /\ \E ok \in Outcomes(faults), page \in Pages(accounts) :
         /\ faults' = faults - Cost(ok)
         /\ rival' = [pc |-> "a_while", sa_count |-> Len(list_sas(ok, page)),
                    listOk |-> ok]
         /\ faultLog' = IF ok THEN faultLog ELSE faultLog \cup {Fail("list", 0)}
    /\ UNCHANGED << credFile, tokenFile, files, create_sas, download_keys, pc,
                    exitCode, creds, sa_count, all_sas, idx, keys_to_create_map,
                    sa_names, i, key_dump, wpos, accounts, keys, svcSysKeys,
                    keyFaults, kills, maxRun, run, rnd, drawn, aids, netCalls,
                    authLog, n0, batchLog, endLog, createLog, writeLog, listLog,
                    lastList >>

\* lines 60-65; batches of the second invocation are logged as run 0
RivalBatch ==
    /\ rival.pc = "a_while" /\ keep_going(rival.sa_count)
    /\ \E failed \in 0..Min(faults, to_create(rival.sa_count)) :
         /\ accounts + to_create(rival.sa_count) - failed <= MaxRemote
         /\ faults' = faults - failed
         /\ accounts' = accounts + to_create(rival.sa_count) - failed
         /\ faultLog' = IF failed = 0 THEN faultLog
                        ELSE faultLog \cup {Fail("create", 0)}
    /\ keys' = IF svcSysKeys
                 THEN keys \cup { SysKey(a) : a \in (accounts + 1)..accounts' }
                 ELSE keys
    /\ batchLog' = Append(batchLog,
                      [run |-> 0, size |-> to_create(rival.sa_count),
                       seen |-> rival.sa_count, held |-> accounts,
                       listOk |-> rival.listOk])
    /\ rival' = [rival EXCEPT !.pc = "a_list"]
    /\ UNCHANGED << credFile, tokenFile, files, create_sas, download_keys, pc,
                    exitCode, creds, sa_count, all_sas, idx, keys_to_create_map,
                    sa_names, i, key_dump, wpos, svcSysKeys, keyFaults, kills,
                    maxRun, run, rnd, drawn, aids, netCalls, authLog, n0,
                    endLog, createLog, writeLog, listLog, lastList >>

\* line 68
RivalDone ==
    /\ rival.pc = "a_while" /\ ~keep_going(rival.sa_count)
    /\ rival' = [rival EXCEPT !.pc = "done"]
    /\ UNCHANGED << credFile, tokenFile, files, create_sas, download_keys, pc,
                    exitCode, creds, sa_count, all_sas, idx, keys_to_create_map,
                    sa_names, i, key_dump, wpos, accounts, keys, svcSysKeys,
                    faults, keyFaults, kills, maxRun, run, rnd, drawn, aids,
                    netCalls, authLog, n0, batchLog, endLog, faultLog,
                    createLog, writeLog, listLog, lastList >>

NextTwo ==
    \/ Main \/ LoadToken \/ UseCached \/ Build
    \/ AcctList \/ AcctBatch \/ AcctDone
    \/ RivalStart \/ RivalList \/ RivalBatch \/ RivalDone

SpecTwo == InitTwo /\ [][NextTwo]_vars

\* ------------------------------------------- the identifiers of a batch
\* one batch of --create-sas under every random source
InitId ==
    /\ credFile = TRUE /\ tokenFile = "valid"
    /\ create_sas = TRUE /\ download_keys = FALSE
    /\ accounts \in {QUOTA - 2, QUOTA - 1}
    /\ svcSysKeys = FALSE
    /\ keys = {}
    /\ files = << >>
    /\ faults = 0 /\ keyFaults = 0 /\ kills = 0 /\ maxRun = 1
    /\ InitLocals
    /\ rnd \in RandomSources

NextId ==
    \/ Main \/ LoadToken \/ UseCached \/ Build
    \/ AcctList \/ AcctBatch \/ AcctDone

SpecId == InitId /\ [][NextId]_vars

\* ------------------------------------- the provisioning loop, run to its end
\* --create-sas alone with a cached token, never killed: the program is one
\* sequential process, so whenever a step is possible a step is taken
InitLoop ==
    /\ credFile = TRUE /\ tokenFile = "valid"
    /\ create_sas = TRUE /\ download_keys = FALSE
    /\ accounts \in {0, QUOTA - CHUNK_SIZE - 1, QUOTA}
    /\ svcSysKeys = FALSE
    /\ keys = {}
    /\ files = << >>
    /\ faults = MaxLoopFaults /\ keyFaults = 0 /\ kills = 0 /\ maxRun = 1
    /\ InitLocals
    /\ rnd = OneSource

NextLoop ==
    \/ Main \/ LoadToken \/ UseCached \/ Build
    \/ AcctList \/ AcctBatch \/ AcctDone

SpecLoop == InitLoop /\ [][NextLoop]_vars /\ WF_vars(NextLoop)

\* ================================================================ claims
\* what the logs say of run r
InRun(log, r)   == { j \in DOMAIN log : log[j].run = r }
CreateCalls(r)  == { createLog[j].sa : j \in InRun(createLog, r) }
CreatedOk(r)    == { createLog[j].sa : j \in { k \in InRun(createLog, r) : createLog[k].ok } }
WrittenFiles(r) == { writeLog[j].file : j \in InRun(writeLog, r) }
ListedKeyed(r)  == { listLog[j].sa : j \in { k \in InRun(listLog, r) : listLog[k].user } }
ListedNoUser(r) == { listLog[j].sa : j \in { k \in InRun(listLog, r) : ~listLog[k].user } }
ListedBare(r)   == { listLog[j].sa :
                       j \in { k \in InRun(listLog, r) : listLog[k].ok /\ ~listLog[k].any } }
FaultsIn(r)     == { f \in faultLog : f.run = r }
FilesOf(S)      == { FileOf(a) : a \in S }
\* every account has at most one create call, and every file at most one
\* write, in run r
NoRepeat(r) ==
    /\ Cardinality(InRun(createLog, r)) = Cardinality(CreateCalls(r))
    /\ Cardinality(InRun(writeLog, r)) = Cardinality(WrittenFiles(r))
HoldsFirstKey(S) == \A a \in S : FileOf(a) \in DOMAIN files /\ files[FileOf(a)] = Payload(a, 1)

\* key provisioning of this run returned normally
KeysReturned == download_keys /\ pc = "exit" /\ exitCode = 0
\* key provisioning of this run has listed the accounts
KeysListed == download_keys /\ (pc \in {"k_check", "k_batch", "k_write"} \/ KeysReturned)

\* C1: with no remote failure, every listed account that has no user-managed
\* key (system-managed keys or not) has had exactly one key created and
\* exactly one file {local-part}.json written, holding the decoded payload,
\* when key provisioning returns.
C1_OneKeyPerKeylessAccount ==
    (KeysReturned /\ FaultsIn(run) = {}) =>
        LET keyless == ListedNoUser(run) IN
        /\ keyless \subseteq CreatedOk(run)
        /\ FilesOf(keyless) \subseteq WrittenFiles(run)
        /\ NoRepeat(run)
        /\ HoldsFirstKey(keyless)

\* C2: an account that holds a user-managed key when its keys are listed gets
\* no key-create call and no write to its file in that run, whatever fails
\* for other accounts.
C2_KeyedAccountUntouched ==
    \A r \in 1..run :
        LET keyed == ListedKeyed(r) IN
        /\ keyed \cap CreateCalls(r) = {}
        /\ FilesOf(keyed) \cap WrittenFiles(r) = {}
        /\ \A a \in keyed :
             /\ UserKeysOf(a) = { [sa |-> a, kid |-> 1, keyType |-> "USER_MANAGED"] }
             /\ FileOf(a) \in DOMAIN files => files[FileOf(a)] = Payload(a, 1)

C2_Witness ==
    /\ KeysReturned /\ run = 1
    /\ \E a \in ListedKeyed(1), f \in FaultsIn(1) :
         /\ FileOf(a) \in DOMAIN files
         /\ f.kind \in {"keys_list", "keys_create"} /\ f.sa # a

\* account provisioning of this run has left its loop
AcctFinished ==
    create_sas /\ ( (pc = "a_while" /\ sa_count >= QUOTA)
                    \/ pc \in {"k_start", "k_check", "k_batch", "k_write"}
                    \/ (pc = "exit" /\ exitCode = 0) )
AcctFaults == { f \in FaultsIn(run) : f.kind \in {"list", "create"} }
Batches    == InRun(batchLog, run)

\* C3: from N < 100 accounts, with true listings and no failed create call,
\* account provisioning ends after exactly ceil((100 - N) / 10) batches with
\* exactly 100 accounts.
C3_BatchCount ==
    (create_sas /\ AcctFaults = {} /\ n0 < QUOTA) =>
        LET ceil == (QUOTA - n0 + CHUNK_SIZE - 1) \div CHUNK_SIZE IN
        /\ Cardinality(Batches) <= ceil /\ accounts <= QUOTA
        /\ AcctFinished => Cardinality(Batches) = ceil /\ accounts = QUOTA

C3_Witness ==
    /\ AcctFinished /\ AcctFaults = {} /\ n0 = 45
    /\ Cardinality(Batches) = 6 /\ accounts = QUOTA
    /\ batchLog[6].size = 5

Ended(r, how) == [run |-> r, how |-> how] \in endLog

C5_NoCredentialsNoNetwork ==
    ~credFile => /\ netCalls = {}
                 /\ pc = "exit" => exitCode = 1

\* C6: a failed listing in account provisioning is taken as zero accounts, no
\* error is propagated, and the next batch holds CHUNK_SIZE create calls
\* whatever the project really holds.
C6_FailedListingCountsZero ==
    /\ (pc = "a_while" /\ lastList = "failed") =>
          sa_count = 0 /\ exitCode = "running"
    /\ \A b \in Range(batchLog) :
          ~b.listOk => b.seen = 0 /\ b.size = CHUNK_SIZE

C6_Witness ==
    \E b \in Range(batchLog) : ~b.listOk /\ b.held >= QUOTA /\ accounts = b.held + b.size

\* the accounts created in this run
Created == (n0 + 1)..accounts

UserKeys == { k \in keys : k.keyType = "USER_MANAGED" }

\* C8: after a killed run, a later run creates no second key for an account
\* that got one before, writes no file that an earlier run wrote, and does
\* not recover the payload of a key created but not written.
C8_CrashResume ==
    /\ Cardinality(UserKeys) = Cardinality({ k.sa : k \in UserKeys })
    /\ \A r \in 1..run, q \in 1..run :
          r < q => /\ CreatedOk(r) \cap CreateCalls(q) = {}
                   /\ FilesOf(CreatedOk(r)) \cap WrittenFiles(q) = {}
                   /\ WrittenFiles(r) \cap WrittenFiles(q) = {}
    /\ \A w \in Range(writeLog) : files[w.file] = w.data

C8_Witness ==
    /\ run = 2 /\ KeysReturned /\ Ended(1, "killed")
    /\ WrittenFiles(1) # {}
    /\ WrittenFiles(2) # {}
    /\ \E b \in CreatedOk(1) :
         FileOf(b) \notin WrittenFiles(1) /\ FileOf(b) \notin DOMAIN files

\* keys created in this run whose payload is not yet in a file
Unwritten == FilesOf(CreatedOk(run)) \ WrittenFiles(run)

KeyFaults(r) == { f \in FaultsIn(r) : f.kind \in {"keys_list", "keys_create"} }

CountsGrow ==
    /\ \A j \in Batches : j - 1 \in Batches => batchLog[j].seen > batchLog[j - 1].seen
    /\ (pc # "a_list" /\ Batches # {}) => sa_count > batchLog[Len(batchLog)].seen

\* the loop is left on the count alone, and below 100 the next batch is always
\* submitted, however many were submitted before
C11_NoRetryCeiling ==
    /\ AcctFinished => sa_count >= QUOTA
    /\ (pc = "a_while" /\ sa_count < QUOTA /\ accounts + CHUNK_SIZE <= MaxRemote) =>
          ENABLED AcctBatch

\* C11: account provisioning terminates whenever every re-listing reports a
\* count greater than the one before; nothing else ends the loop: there is no
\* retry ceiling, and while the count read is below 100 a new batch is
\* submitted every iteration.
C11_TerminatesWhileCountGrows ==
    /\ <>(pc = "exit" \/ ~CountsGrow)
    /\ []C11_NoRetryCeiling

\* after the ten batches an empty project needs, the loop is still running
C11_Witness ==
    /\ pc = "a_while" /\ sa_count < QUOTA
    /\ Cardinality(Batches) >= QUOTA \div CHUNK_SIZE
    /\ AcctFaults # {}

\* both invocations have returned
BothDone == pc = "exit" /\ exitCode = 0 /\ rival.pc = "done"

\* C12: nothing keeps two invocations of --create-sas on one project apart.
\* With error-free listings each submits its batches on the count it read
\* itself, which the other may have made stale: a batch never exceeds what
\* its own count leaves below 100 and a step of one invocation never waits
\* for the other, but the project can end above 100 accounts (by at most one
\* batch).
C12_NoMutualExclusion ==
    /\ \A b \in Range(batchLog) :
          b.seen <= b.held /\ b.seen + b.size <= QUOTA /\ b.size <= CHUNK_SIZE
    /\ accounts <= QUOTA + CHUNK_SIZE
    /\ (pc = "a_while" /\ sa_count < QUOTA) => ENABLED AcctBatch
    /\ (rival.pc = "a_while" /\ rival.sa_count < QUOTA) => ENABLED RivalBatch
    /\ BothDone => accounts >= QUOTA

\* both have returned, no call failed, and the project holds more than 100
C12_Witness ==
    /\ BothDone /\ faultLog = {}
    /\ accounts > QUOTA
    /\ \E b \in Range(batchLog) : b.run = 0 /\ b.held > b.seen

\* what this run did about the token
Renewed == \/ "refresh" \in netCalls /\ Fail("refresh", 0) \notin FaultsIn(run)
           \/ "fetch_token" \in netCalls /\ Fail("fetch_token", 0) \notin FaultsIn(run)
TokenWritten == \E e \in authLog : e.ev = "write_token"
PastAuth == pc \in {"build", "a_list", "a_while", "k_start", "k_check",
                    "k_batch", "k_write"}
            \/ (pc = "exit" /\ exitCode = 0)
IamCalls == {"list", "create", "keys_list", "keys_create"}

\* C13: in every run that refreshed the token or obtained one through the
\* interactive flow, that token is in the token cache file before the IAM
\* client is built, hence before any provisioning call.
C13_TokenPersistedBeforeBuild ==
    /\ pc = "persist" => Renewed /\ netCalls \cap IamCalls = {}
    /\ (Renewed /\ PastAuth) =>
          /\ [ev |-> "write_token", tok |-> creds] \in authLog
          /\ tokenFile = creds /\ creds = "valid"
    /\ (Renewed /\ netCalls \cap IamCalls # {}) => TokenWritten

C13_Witness ==
    /\ [ev |-> "load_token", tok |-> "expired_refresh"] \in authLog
    /\ "refresh" \in netCalls /\ "list" \in netCalls
    /\ tokenFile = "valid"

\* the characters the identifier may hold
Lower == {"a", "b", "c", "d", "e", "f", "g", "h", "i", "j", "k", "l", "m", "n",
          "o", "p", "q", "r", "s", "t", "u", "v", "w", "x", "y", "z"}
Digit == {"0", "1", "2", "3", "4", "5", "6", "7", "8", "9"}

\* C14: every accountId submitted by account provisioning is the prefix,
\* then 25 characters of a-z, 0-9 and '-', then one character of a-z and 0-9;
\* whatever the draws, it neither starts nor ends with a hyphen and its
\* length is the same.
C14_IdentifierForm ==
    \A n \in DOMAIN aids :
       LET id == aids[n] IN
       /\ Len(id) = Len(Prefix) + 25 + 1
       /\ SubSeq(id, 1, Len(Prefix)) = Prefix
       /\ \A k \in (Len(Prefix) + 1)..(Len(id) - 1) : id[k] \in Lower \cup Digit \cup {"-"}
       /\ id[Len(id)] \in Lower \cup Digit
       /\ id[1] # "-" /\ id[Len(id)] # "-"

\* a batch whose identifiers drew the hyphen 25 times before the last draw
C14_Witness ==
    /\ pc = "a_list" /\ Len(aids) = 2
    /\ \A k \in (Len(Prefix) + 1)..(Len(aids[1]) - 1) : aids[1][k] = "-"
    /\ aids[1][Len(aids[1])] \in Lower

\* the token cache file held a valid token when this run loaded it
LoadedValid == [ev |-> "load_token", tok |-> "valid"] \in authLog

\* C15: a run that loads a valid token from the cache file uses it as it is:
\* it makes no refresh call, runs no interactive flow, does not read the
\* client-secrets file and leaves the token cache file as it was.
C15_ValidTokenUsedAsIs ==
    LoadedValid =>
       /\ netCalls \cap {"refresh", "fetch_token"} = {}
       /\ authLog = {[ev |-> "load_token", tok |-> "valid"]}
       /\ tokenFile = "valid" /\ creds = "valid"
       /\ pc # "persist"

C15_Witness ==
    /\ LoadedValid /\ ~credFile
    /\ pc = "exit" /\ exitCode = 0
    /\ netCalls \cap IamCalls # {}

ListFaults == { f \in FaultsIn(run) : f.kind = "list" }

\* C16: in a run of account provisioning whose listings all return the true
\* count (create calls may fail), every batch holds between 1 and 10 create
\* calls, the count read plus the batch size never exceeds 100, and the
\* project never holds more than 100 accounts.
C16_QuotaNeverExceeded ==
    (create_sas /\ ListFaults = {} /\ n0 <= QUOTA) =>
       /\ \A j \in Batches :
             /\ batchLog[j].size \in 1..CHUNK_SIZE
             /\ batchLog[j].seen = batchLog[j].held
             /\ batchLog[j].seen + batchLog[j].size <= QUOTA
       /\ accounts <= QUOTA

\* a create call of a full batch failed, and a batch of one made up for it
C16_Witness ==
    /\ AcctFinished /\ ListFaults = {} /\ Fail("create", 0) \in FaultsIn(run)
    /\ n0 = QUOTA - CHUNK_SIZE /\ accounts = QUOTA
    /\ \E j \in Batches : batchLog[j].size = 1 /\ batchLog[j].seen = QUOTA - 1

\* key provisioning is between two chunks, or has returned
ChunkDone ==
    download_keys /\ ( pc = "k_batch"
                       \/ (pc = "k_write" /\ wpos > Len(key_dump))
                       \/ KeysReturned )

\* C17: whenever key provisioning has finished a chunk, the key files written
\* in this run are those of the accounts whose key-create call succeeded in
\* this run: no file for an account whose call failed, no created key
\* without its file.
C17_CreatedEqualsWritten ==
    ChunkDone =>
       /\ WrittenFiles(run) = FilesOf(CreatedOk(run))
       /\ FilesOf(CreateCalls(run) \ CreatedOk(run)) \cap WrittenFiles(run) = {}
       /\ \A a \in CreatedOk(run) : FileOf(a) \in DOMAIN files

\* the first chunk of ten is done, one of its calls failed, nine files written
C17_Witness ==
    /\ pc = "k_batch" /\ i = CHUNK_SIZE
    /\ Cardinality(CreateCalls(run)) = CHUNK_SIZE
    /\ Cardinality(CreatedOk(run)) = CHUNK_SIZE - 1
    /\ Cardinality(WrittenFiles(run)) = CHUNK_SIZE - 1

====
